---- MODULE Spec2Model ----
(***************************************************************************)
(* Commute optimizer: the request-rate governor and proxy handler of       *)
(* api/directions.js, and the analysis engine of public/index.js (time     *)
(* slot generation, future filtering, sequential querying).                *)
(*                                                                         *)
(* Times are integers in milliseconds, as Date.now() and Date#getTime().   *)
(* The server clock is non-decreasing.                                     *)
(***************************************************************************)
EXTENDS Integers, Sequences, FiniteSets, TLC

VARIABLES
    \* ---- api/directions.js (server process) ----
    serverNow,      \* the value Date.now() returns on the server
    rateLimitMap,   \* the Map ip -> {count, windowStart, dailyKey, dailyCount}
    hasApiKey,      \* whether process.env.GOOGLE_API_KEY is set
    inflight,       \* multiset of handler invocations suspended on `await fetch(url)`
    last,           \* what the most recent handler step did (observation)
    allowedLog,     \* per ip, how many checks were Allowed at each instant (observation)
    nreq,           \* number of requests received so far
    ticks,          \* number of clock advances so far
    \* ---- generateTimeSlots, applied to inputs drawn at the start ----
    genIn,          \* [start, end, intervalMinutes]: the arguments
    genOut,         \* what the call did: nothing yet, or the value it returned
    \* ---- public/index.js (one page in a browser) ----
    clientNow,      \* the value of new Date() in the page
    state,          \* the `state` object: the fields the engine reads and writes
    pc,             \* where handleAnalyze is: "idle", "fetch" or "sleep" (awaiting)
    frame,          \* the locals of the running handleAnalyze / analyzeTimeRange
    calls,          \* the provider calls issued so far, in order (observation)
    windows,        \* the windows analysed so far, as they were filtered (observation)
    toast,          \* the latest toast shown
    ncalls,         \* number of provider calls issued so far
    clicks,         \* number of clicks on Analyze so far
    events,         \* number of other user events so far
    budget,         \* how many provider calls the exploration follows
    answers,        \* what the proxy answered to the calls of the running window
    \* ---- the aggregation of analyzeTimeRange, applied to kept slots drawn at the start ----
    aggIn,          \* [results, isCompareAll]: the kept slots and the mode
    aggOut,         \* what the aggregation did: nothing yet, a result, or a throw
    chart,          \* what renderChart drew of the result, if it ran
    \* ---- unnamed/part_000: Promise.race of fetchTravelTime, per provider call ----
    races           \* per call: the response, the 15 s timer, and what the race settled on

govVars == <<serverNow, rateLimitMap, hasApiKey, inflight, last, allowedLog, nreq, ticks>>

genVars == <<genIn, genOut>>

appVars == <<clientNow, state, pc, frame, calls, windows, toast, ncalls, clicks, events,
             budget, answers>>

aggVars == <<aggIn, aggOut, chart>>

raceVars == <<races>>

vars == <<govVars, genVars, appVars, aggVars, raceVars>>

(***************************************************************************)
(* Program constants                                                       *)
(***************************************************************************)
WindowMs == 60000
MaxRequests == 60
DailyLimit == 1000
DayMs == 86400000
MsPerSecond == 1000

(***************************************************************************)
(* Bounds of the model                                                     *)
(***************************************************************************)
MaxReq == 3
MaxTicks == 2

(***************************************************************************)
(* Math.ceil(x / d) on integers, d > 0                                     *)
(***************************************************************************)
CeilDiv(x, d) == -((-x) \div d)

(***************************************************************************)
(* Request governor: checkRateLimit                                        *)
(***************************************************************************)
\* new Date().toISOString().split('T')[0]: the UTC calendar day of an instant
UtcDay(t) == t \div DayMs

GetRateLimitKey(ip, t) == <<ip, UtcDay(t)>>

NewEntry(now, dailyKey) ==
    [count |-> 0, windowStart |-> now, dailyKey |-> dailyKey, dailyCount |-> 0]

\* if (!rateLimitMap.has(ip)) rateLimitMap.set(ip, {...})
GetOrCreate(m, ip, now, dailyKey) ==
    IF ip \in DOMAIN m THEN m ELSE m @@ (ip :> NewEntry(now, dailyKey))

\* Mutant: a new day is never noticed.
IsNewDayNever(e, dailyKey) == FALSE

IsNewDay(e, dailyKey) == e.dailyKey # dailyKey

ResetDaily(e, dailyKey) ==
    IF IsNewDay(e, dailyKey)
    THEN [e EXCEPT !.dailyKey = dailyKey, !.dailyCount = 0]
    ELSE e

WindowExpired(e, now) == now - e.windowStart > WindowMs

ResetWindow(e, now) ==
    IF WindowExpired(e, now)
    THEN [e EXCEPT !.count = 0, !.windowStart = now]
    ELSE e

\* Mutant: the daily cap lets one more check through.
DailyLimitHitOffByOne(e) == e.dailyCount > DailyLimit

DailyLimitHit(e) == e.dailyCount >= DailyLimit

\* Mutant: the short-window cap lets one more check through.
ShortLimitHitOffByOne(e) == e.count > MaxRequests

ShortLimitHit(e) == e.count >= MaxRequests

RetryAfter(e, now) == CeilDiv(e.windowStart + WindowMs - now, MsPerSecond)

\* Mutant: only the short-window counter is charged.
IncrementCountOnly(e) == [e EXCEPT !.count = @ + 1]

Increment(e) == [e EXCEPT !.count = @ + 1, !.dailyCount = @ + 1]

NoRetry == -1

\* Mutant: the short-window cap is evaluated before the daily cap.
CheckRateLimitShortFirst(m, ip, now) ==
    LET dailyKey == GetRateLimitKey(ip, now)
        m1 == GetOrCreate(m, ip, now, dailyKey)
        e1 == ResetWindow(ResetDaily(m1[ip], dailyKey), now)
    IN  IF ShortLimitHit(e1)
        THEN [map |-> [m1 EXCEPT ![ip] = e1], allowed |-> FALSE,
              reason |-> "short", retryAfter |-> RetryAfter(e1, now)]
        ELSE IF DailyLimitHit(e1)
        THEN [map |-> [m1 EXCEPT ![ip] = e1], allowed |-> FALSE,
              reason |-> "daily", retryAfter |-> NoRetry]
        ELSE [map |-> [m1 EXCEPT ![ip] = Increment(e1)], allowed |-> TRUE,
              reason |-> "none", retryAfter |-> NoRetry]

\* The whole of checkRateLimit(ip) at clock reading `now`: the map it leaves and
\* the value it returns.
CheckRateLimit(m, ip, now) ==
    LET dailyKey == GetRateLimitKey(ip, now)
        m1 == GetOrCreate(m, ip, now, dailyKey)
        e1 == ResetWindow(ResetDaily(m1[ip], dailyKey), now)
    IN  IF DailyLimitHit(e1)
        THEN [map |-> [m1 EXCEPT ![ip] = e1], allowed |-> FALSE,
              reason |-> "daily", retryAfter |-> NoRetry]
        ELSE IF ShortLimitHit(e1)
        THEN [map |-> [m1 EXCEPT ![ip] = e1], allowed |-> FALSE,
              reason |-> "short", retryAfter |-> RetryAfter(e1, now)]
        ELSE [map |-> [m1 EXCEPT ![ip] = Increment(e1)], allowed |-> TRUE,
              reason |-> "none", retryAfter |-> NoRetry]

(***************************************************************************)
(* Proxy handler                                                           *)
(***************************************************************************)
Clients == {"a", "unknown"}

\* req.headers['x-forwarded-for']?.split(',')[0] || req.headers['x-real-ip']
\*   || req.socket?.remoteAddress || 'unknown'      ("" is a missing header)
ClientIp(req) ==
    IF req.xff # "" THEN req.xff
    ELSE IF req.realIp # "" THEN req.realIp
    ELSE IF req.remote # "" THEN req.remote
    ELSE "unknown"

\* The header combinations a request arrives with: each source of the client
\* identity in turn, and none.
Headers ==
    {[xff |-> "a", realIp |-> "", remote |-> ""],
     [xff |-> "", realIp |-> "a", remote |-> ""],
     [xff |-> "", realIp |-> "", remote |-> "a"],
     [xff |-> "", realIp |-> "", remote |-> ""]}

\* The requests that arrive: a POST with every header combination, with and
\* without the required body fields, and a request of another method.
Requests ==
    {[method |-> "POST", xff |-> h.xff, realIp |-> h.realIp, remote |-> h.remote,
      bodyOk |-> b] : h \in Headers, b \in BOOLEAN}
    \cup {[method |-> "GET", xff |-> "a", realIp |-> "", remote |-> "", bodyOk |-> TRUE]}

MethodAllowed(req) == req.method = "POST"

\* Mutant: a denied check does not end the request.
RateDeniedNever(rc) == FALSE

RateDenied(rc) == ~rc.allowed

\* !origin || !destination || !departureTime
MissingFields(req) == ~req.bodyOk

NoLast ==
    [step |-> "init", method |-> "none", ip |-> "none", status |-> 0,
     checked |-> FALSE, allowed |-> FALSE, reason |-> "none",
     retryAfter |-> NoRetry, forwarded |-> FALSE, hadEntry |-> FALSE,
     pre |-> NewEntry(0, <<"none", 0>>), elapsed |-> 0]

\* The observation of one handler step that reached checkRateLimit.
Checked(req, ip, rc, status, forwarded) ==
    [step |-> "handled", method |-> req.method, ip |-> ip,
     status |-> status, checked |-> TRUE, allowed |-> rc.allowed,
     reason |-> rc.reason, retryAfter |-> rc.retryAfter, forwarded |-> forwarded,
     hadEntry |-> ip \in DOMAIN rateLimitMap,
     pre |-> GetOrCreate(rateLimitMap, ip, serverNow, GetRateLimitKey(ip, serverNow))[ip],
     elapsed |-> serverNow
        - GetOrCreate(rateLimitMap, ip, serverNow, GetRateLimitKey(ip, serverNow))[ip].windowStart]

\* Multisets as functions from an element to the number of its copies.
AddAt(log, t) ==
    IF t \in DOMAIN log THEN [log EXCEPT ![t] = @ + 1] ELSE log @@ (t :> 1)

RemoveAt(log, t) ==
    IF log[t] > 1 THEN [log EXCEPT ![t] = @ - 1]
    ELSE [x \in DOMAIN log \ {t} |-> log[x]]

\* handler(req, res) from its entry to its first suspension (`await fetch(url)`)
\* or to the response it returns before that.
Handler(req) ==
    /\ nreq < MaxReq
    /\ nreq' = nreq + 1
    /\ UNCHANGED <<serverNow, hasApiKey, ticks, genVars, appVars, aggVars, raceVars>>
    /\ IF ~MethodAllowed(req)
       THEN /\ last' = [NoLast EXCEPT !.step = "handled",
                                      !.method = req.method, !.status = 405]
            /\ UNCHANGED <<rateLimitMap, inflight, allowedLog>>
       ELSE LET ip == ClientIp(req)
                rc == CheckRateLimit(rateLimitMap, ip, serverNow)
            IN  /\ rateLimitMap' = rc.map
                /\ allowedLog' = IF rc.allowed
                                 THEN [allowedLog EXCEPT ![ip] = AddAt(@, serverNow)]
                                 ELSE allowedLog
                /\ IF RateDenied(rc)
                   THEN /\ last' = Checked(req, ip, rc, 429, FALSE)
                        /\ UNCHANGED inflight
                   ELSE IF MissingFields(req)
                   THEN /\ last' = Checked(req, ip, rc, 400, FALSE)
                        /\ UNCHANGED inflight
                   ELSE IF ~hasApiKey
                   THEN /\ last' = Checked(req, ip, rc, 500, FALSE)
                        /\ UNCHANGED inflight
                   ELSE /\ last' = Checked(req, ip, rc, 0, TRUE)
                        /\ inflight' = AddAt(inflight, [ip |-> ip, allowed |-> rc.allowed])

\* What the provider call of a suspended handler ends with.
ProviderOutcomes == {"OK", "NOT_OK", "NO_LEG", "THROW"}

ProviderStatus(outcome) ==
    CASE outcome = "OK" -> 200
      [] outcome = "NOT_OK" -> 400
      [] outcome = "NO_LEG" -> 400
      [] OTHER -> 500

\* The rest of handler after `await fetch(url)`: the response it sends.
ProviderSettle(r, outcome) ==
    /\ r \in DOMAIN inflight
    /\ inflight' = RemoveAt(inflight, r)
    /\ last' = [NoLast EXCEPT !.step = "settled", !.method = "POST",
                              !.ip = r.ip, !.status = ProviderStatus(outcome),
                              !.checked = TRUE, !.allowed = r.allowed,
                              !.forwarded = TRUE]
    /\ UNCHANGED <<serverNow, rateLimitMap, hasApiKey, allowedLog, nreq, ticks, genVars, appVars, aggVars, raceVars>>

\* Time passes on the server between two handler steps.
Steps == {1, 1000}

Tick(d) ==
    /\ ticks < MaxTicks
    /\ ticks' = ticks + 1
    /\ serverNow' = serverNow + d
    /\ UNCHANGED <<rateLimitMap, hasApiKey, inflight, last, allowedLog, nreq, genVars, appVars, aggVars, raceVars>>

(***************************************************************************)
(* Initial states of the governor: the map a server process holds after    *)
(* serving a schedule of earlier checks, obtained by running checkRateLimit *)
(* itself on that schedule from the empty map.                             *)
(***************************************************************************)
\* n checks of one client at instant t. (The test on st1 makes TLC evaluate
\* each check before the next one, so the evaluation stays shallow.)
RECURSIVE Burst(_, _, _, _)
Burst(st, ip, t, n) ==
    IF n = 0 THEN st
    ELSE LET rc == CheckRateLimit(st.map, ip, t)
             st1 == [map |-> rc.map,
                     log |-> IF rc.allowed THEN AddAt(st.log, t) ELSE st.log]
         IN  IF st1.map[ip].count >= 0 /\ DOMAIN st1.log # {}
             THEN Burst(st1, ip, t, n - 1)
             ELSE st1

RECURSIVE Replay(_, _, _)
Replay(st, ip, sched) ==
    IF sched = <<>> THEN st
    ELSE LET st1 == Burst(st, ip, Head(sched).t, Head(sched).n)
         IN  IF DOMAIN st1.map # {} /\ DOMAIN st1.log # {}
             THEN Replay(st1, ip, Tail(sched))
             ELSE st1

\* The instant the model starts at: one second before a UTC midnight.
T0 == DayMs - MsPerSecond

\* 940 checks earlier on the same day, in 16 windows that have all expired.
EarlierToday ==
    <<[t |-> T0 - 59000 - 16 * (WindowMs + 1), n |-> 40]>>
    \o [k \in 1..15 |-> [t |-> T0 - 59000 - (16 - k) * (WindowMs + 1), n |-> 60]]

\* 59 checks in a window that started 59 s ago.
Late59 == <<[t |-> T0 - 59000, n |-> 1], [t |-> T0, n |-> 58]>>

\* 60 checks in one more expired window before those of EarlierToday: with
\* them the day's 1000 checks are used up while the last window has expired.
Morning60 == <<[t |-> T0 - 59000 - 17 * (WindowMs + 1), n |-> 60]>>

Schedules == {<<>>, Late59, EarlierToday \o Late59, Morning60 \o EarlierToday}

GovInit ==
    \E sa \in Schedules, su \in {<<>>} :
        LET ra == Replay([map |-> <<>>, log |-> <<>>], "a", sa)
            ru == Replay([map |-> ra.map, log |-> <<>>], "unknown", su)
        IN  /\ rateLimitMap = ru.map
            /\ allowedLog = [ip \in Clients |-> IF ip = "a" THEN ra.log ELSE ru.log]
            /\ serverNow = T0
            /\ hasApiKey \in BOOLEAN
            /\ inflight = <<>>
            /\ last = NoLast
            /\ nreq = 0
            /\ ticks = 0

\* The server process when only the client side is looked at.
GovIdle ==
    /\ serverNow = T0
    /\ rateLimitMap = <<>>
    /\ allowedLog = [ip \in Clients |-> <<>>]
    /\ hasApiKey = TRUE
    /\ inflight = <<>>
    /\ last = NoLast
    /\ nreq = 0
    /\ ticks = 0

GovNext ==
    \/ \E req \in Requests : Handler(req)
    \/ \E r \in DOMAIN inflight, outcome \in ProviderOutcomes : ProviderSettle(r, outcome)
    \/ \E d \in Steps : Tick(d)

(***************************************************************************)
(* Time slot generation: generateTimeSlots of public/index.js              *)
(*                                                                         *)
(* A time-of-day string "HH:MM" is the record of its two fields, each the  *)
(* sequence of its decimal digits: "06:15" is [hh |-> <<0,6>>,             *)
(* mm |-> <<1,5>>].                                                        *)
(***************************************************************************)
\* Number(s) of a string of decimal digits
RECURSIVE DigitsValue(_)
DigitsValue(ds) ==
    IF ds = <<>> THEN 0
    ELSE 10 * DigitsValue(SubSeq(ds, 1, Len(ds) - 1)) + ds[Len(ds)]

\* n.toString() of an integer n >= 0
RECURSIVE ToDigits(_)
ToDigits(n) == IF n < 10 THEN <<n>> ELSE Append(ToDigits(n \div 10), n % 10)

\* s.padStart(2, '0')
PadStart2(ds) == IF Len(ds) < 2 THEN <<0>> \o ds ELSE ds

\* const [h, m] = s.split(':').map(Number); h * 60 + m
TotalMinutes(s) == DigitsValue(s.hh) * 60 + DigitsValue(s.mm)

\* `${hours.toString().padStart(2,'0')}:${mins.toString().padStart(2,'0')}`
FormatSlot(currentMinutes) ==
    [hh |-> PadStart2(ToDigits(currentMinutes \div 60)),
     mm |-> PadStart2(ToDigits(currentMinutes % 60))]

\* Mutant: the loop stops before the end of the window.
LoopContinuesExclusive(currentMinutes, endTotalMinutes) ==
    currentMinutes < endTotalMinutes

\* while (currentMinutes <= endTotalMinutes)
LoopContinues(currentMinutes, endTotalMinutes) == currentMinutes <= endTotalMinutes

\* The loop from one test of its condition on. (The test on Len makes TLC
\* evaluate each push before the next round, so the evaluation stays shallow.)
RECURSIVE SlotLoop(_, _, _, _)
SlotLoop(currentMinutes, endTotalMinutes, intervalMinutes, slots) ==
    IF LoopContinues(currentMinutes, endTotalMinutes)
    THEN LET pushed == Append(slots, FormatSlot(currentMinutes))
         IN  IF Len(pushed) > 0
             THEN SlotLoop(currentMinutes + intervalMinutes, endTotalMinutes,
                           intervalMinutes, pushed)
             ELSE pushed
    ELSE slots

GenerateTimeSlots(start, end, intervalMinutes) ==
    SlotLoop(TotalMinutes(start), TotalMinutes(end), intervalMinutes, <<>>)

\* The arguments the function is applied to: times of day as an
\* <input type="time"> gives them, and positive intervals.
DayMinutes == {0, 50, 360, 370, 600, 615}

LateMinutes == {1380, 1425, 1439}

GenWindows ==
    {<<FormatSlot(a), FormatSlot(b)>> : a, b \in DayMinutes}
    \cup {<<FormatSlot(a), FormatSlot(b)>> : a, b \in LateMinutes}

GenIntervals == {10, 15, 60}

NotCalled == [called |-> FALSE, kind |-> "none", slots |-> <<>>]

GenInit ==
    /\ \E w \in GenWindows, i \in GenIntervals :
           genIn = [start |-> w[1], end |-> w[2], intervalMinutes |-> i]
    /\ genOut = NotCalled

\* No call of generateTimeSlots is looked at.
GenIdle ==
    /\ genIn = [start |-> FormatSlot(0), end |-> FormatSlot(0), intervalMinutes |-> 15]
    /\ genOut = NotCalled

\* One call generateTimeSlots(start, end, intervalMinutes): it has no throw
\* statement, so it returns.
GenCall ==
    /\ ~genOut.called
    /\ genOut' = [called |-> TRUE, kind |-> "returned",
                  slots |-> GenerateTimeSlots(genIn.start, genIn.end,
                                              genIn.intervalMinutes)]
    /\ UNCHANGED <<genIn, govVars, appVars, aggVars, raceVars>>

(***************************************************************************)
(* The analysis engine of public/index.js: handleAnalyze, analyzeTimeRange *)
(*                                                                         *)
(* A Date is its time value in milliseconds of local time; a calendar day  *)
(* is its index d, and local midnight of day d is d * DayMs.  Only the     *)
(* calendar day of state.selectedDate is ever read (setHours replaces the  *)
(* time of day), so state.selectedDate is the day index.                   *)
(***************************************************************************)
IntervalMinutes == 15
PacingMs == 200
MsPerMinute == 60000

\* Bounds of the exploration
MaxClicks == 2
MaxEvents == 1
MaxCalls == 3
MaxBatchCalls == 6
MaxKeptSingle == 3
MaxKeptCompare == 2
MaxPacedCalls == 102
MaxRaceCalls == 3

\* JavaScript values that may be absent
Undefined == [t |-> "undefined"]
Null == [t |-> "null"]
Num(n) == [t |-> "number", v |-> n]
Infinity == [t |-> "number", v |-> 2147483647]

\* ToBoolean(v)
Truthy(v) ==
    CASE v.t = "undefined" -> FALSE
      [] v.t = "null" -> FALSE
      [] v.t = "number" -> v.v # 0
      [] OTHER -> TRUE

\* a || b
Or(a, b) == IF Truthy(a) THEN a ELSE b

\* s?.duration
OptDuration(s) == IF s.t = "object" THEN s.duration ELSE Undefined

\* Mutant: Math.floor in place of Math.round.
RoundMinutesDown(n) == n \div 60

\* Math.round(duration / 60) of an integer number of seconds
RoundMinutes(n) == (n + 30) \div 60

\* { duration: duration, durationMinutes: Math.round(duration / 60) }
Sample(duration) ==
    [t |-> "object", duration |-> Num(duration),
     durationMinutes |-> Num(RoundMinutes(duration))]

\* A message: its fixed text and, for the templated one, what is filled in.
Msg(text) == [text |-> text, periodName |-> "", timeRange |-> <<>>]

NoError == [isError |-> FALSE, message |-> Msg(""), call |-> 0]

\* new Error(message); `call` tells the Error objects of provider calls apart
Error(message, call) == [isError |-> TRUE, message |-> message, call |-> call]

NoToast == [type |-> "none", message |-> Msg("")]

\* formatTime(timeString)
FormatTime(timeString) ==
    LET hours == DigitsValue(timeString.hh)
        minutes == DigitsValue(timeString.mm)
    IN  [displayHours |-> ToDigits(IF hours % 12 = 0 THEN 12 ELSE hours % 12),
         minutes |-> PadStart2(ToDigits(minutes)),
         period |-> IF hours >= 12 THEN "PM" ELSE "AM"]

\* combineDateAndTime(date, timeString): setHours(hours, minutes, 0, 0)
CombineDateAndTime(date, timeString) ==
    date * DayMs + (DigitsValue(timeString.hh) * 60 + DigitsValue(timeString.mm))
                     * MsPerMinute

\* selectedDateEnd: setHours(23, 59, 59, 999) on the selected date
SelectedDateEnd(date) == date * DayMs + DayMs - 1

\* Mutant: a slot whose instant equals now passes the filter.
IsFutureInclusive(departureTime, now) == departureTime >= now

\* departureTime > now
IsFuture(departureTime, now) == departureTime > now

\* times.filter(time => combineDateAndTime(state.selectedDate, time) > now)
FutureTimes(times, selectedDate, now) ==
    SelectSeq(times, LAMBDA time : IsFuture(CombineDateAndTime(selectedDate, time), now))

\* The list of { key, model } the inner loop runs over
TrafficModels(trafficModel) ==
    IF trafficModel = "compare_all"
    THEN <<[key |-> "optimistic", model |-> "optimistic"],
           [key |-> "best_guess", model |-> "best_guess"],
           [key |-> "pessimistic", model |-> "pessimistic"]>>
    ELSE <<[key |-> "single", model |-> trafficModel]>>

\* const resultEntry = { time, departureTime }: the fields the loops may set
\* are there from the start, undefined
NewEntry0(time, departureTime) ==
    [time |-> time, departureTime |-> departureTime,
     duration |-> Undefined, durationMinutes |-> Undefined,
     optimistic |-> Undefined, best_guess |-> Undefined, pessimistic |-> Undefined,
     trafficLevel |-> "", isOptimal |-> FALSE]

\* The body of try, after fetchTravelTime returned duration
Fulfilled(entry, isCompareAll, key, duration) ==
    IF isCompareAll
    THEN [entry EXCEPT ![key] = Sample(duration)]
    ELSE [entry EXCEPT !.duration = Num(duration),
                       !.durationMinutes = Num(RoundMinutes(duration))]

\* The body of catch
Rejected(entry, isCompareAll, key) ==
    IF isCompareAll THEN [entry EXCEPT ![key] = Null] ELSE entry

\* Mutant: a slot is kept whatever its calls gave.
KeepAlways(entry, isCompareAll) == TRUE

\* The test under which results.push(resultEntry) runs
Keep(entry, isCompareAll) ==
    IF isCompareAll
    THEN Truthy(entry.optimistic) \/ Truthy(entry.best_guess)
             \/ Truthy(entry.pessimistic)
    ELSE Truthy(entry.duration)

\* Math.max(a, b) and Math.min(a, b) of two numbers
Max2(a, b) == IF a >= b THEN a ELSE b
Min2(a, b) == IF a <= b THEN a ELSE b

\* Math.max(...xs) and Math.min(...xs) of a non-empty list of numbers
RECURSIVE MaxOf(_)
MaxOf(xs) == IF Len(xs) = 1 THEN xs[1] ELSE Max2(xs[1], MaxOf(Tail(xs)))

RECURSIVE MinOf(_)
MinOf(xs) == IF Len(xs) = 1 THEN xs[1] ELSE Min2(xs[1], MinOf(Tail(xs)))

\* Mutant: the later element wins a tie.
RECURSIVE ReduceBestLast(_, _, _)
ReduceBestLast(f, best, i) ==
    IF i > Len(f) THEN best
    ELSE ReduceBestLast(f, IF f[i] <= f[best] THEN i ELSE best, i + 1)

\* Mutant: the greater element is taken.
RECURSIVE ReduceBestGreatest(_, _, _)
ReduceBestGreatest(f, best, i) ==
    IF i > Len(f) THEN best
    ELSE ReduceBestGreatest(f, IF f[i] > f[best] THEN i ELSE best, i + 1)

\* xs.reduce((best, current) => f[current] < f[best] ? current : best), as the
\* index of the element it returns, from `best` on; xs is not empty
RECURSIVE ReduceBest(_, _, _)
ReduceBest(f, best, i) ==
    IF i > Len(f) THEN best
    ELSE ReduceBest(f, IF f[i] < f[best] THEN i ELSE best, i + 1)

\* Mutant: the thresholds themselves fall into the lower level.
TrafficLevelInclusive(duration, minDuration) ==
    IF 10 * duration <= 12 * minDuration THEN "low"
    ELSE IF 10 * duration <= 14 * minDuration THEN "medium"
    ELSE "high"

\* Mutant: low ends at 1.1 times the least duration.
TrafficLevelTight(duration, minDuration) ==
    IF 10 * duration < 11 * minDuration THEN "low"
    ELSE IF 10 * duration < 14 * minDuration THEN "medium"
    ELSE "high"

\* The trafficLevel given to a result of single mode
TrafficLevel(duration, minDuration) ==
    IF 10 * duration < 12 * minDuration THEN "low"
    ELSE IF 10 * duration < 14 * minDuration THEN "medium"
    ELSE "high"

\* The return value of analyzeTimeRange in single mode
AggregateSingle(results) ==
    LET ds == [i \in DOMAIN results |-> results[i].duration.v]
        minDuration == MinOf(ds)
        maxDuration == MaxOf(ds)
        best == ReduceBest(ds, 1, 2)
        times == [i \in DOMAIN results |->
                     [results[i] EXCEPT
                         !.trafficLevel = TrafficLevel(ds[i], minDuration),
                         !.isOptimal = (i = best)]]
    IN  [threw |-> FALSE, error |-> NoError,
         value |-> [times |-> times, optimal |-> best,
                    savingsMinutes |-> RoundMinutes(maxDuration - ds[best]),
                    minDuration |-> minDuration, maxDuration |-> maxDuration,
                    isCompareAll |-> FALSE]]

\* The return value of analyzeTimeRange in compare-all mode, or the TypeError
\* of reduce on an empty validResults
AggregateCompareAll(results) ==
    LET valid == {i \in DOMAIN results : Truthy(results[i].best_guess)}
        D(i, key, dflt) == Or(OptDuration(results[i][key]), dflt).v
        maxDuration ==
            MaxOf([i \in DOMAIN results |->
                      Max2(D(i, "optimistic", Num(0)),
                           Max2(D(i, "best_guess", Num(0)),
                                D(i, "pessimistic", Num(0))))])
        globalMin ==
            MinOf([i \in DOMAIN results |->
                      Min2(D(i, "optimistic", Infinity),
                           Min2(D(i, "best_guess", Infinity),
                                D(i, "pessimistic", Infinity)))])
        \* validResults, as the indices in results of its elements
        validSeq == SelectSeq([i \in DOMAIN results |-> i], LAMBDA i : i \in valid)
        bg == [k \in DOMAIN validSeq |-> results[validSeq[k]].best_guess.duration.v]
        best == validSeq[ReduceBest(bg, 1, 2)]
        times == [i \in DOMAIN results |-> [results[i] EXCEPT !.isOptimal = (i = best)]]
    IN  IF valid = {}
        THEN [threw |-> TRUE,
              error |-> Error(Msg("Reduce of empty array with no initial value"), 0),
              value |-> Undefined]
        ELSE [threw |-> FALSE, error |-> NoError,
              value |-> [times |-> times, optimal |-> best,
                         savingsMinutes |->
                             RoundMinutes(maxDuration
                                          - results[best].best_guess.duration.v),
                         minDuration |-> globalMin, maxDuration |-> maxDuration,
                         isCompareAll |-> TRUE]]

Aggregate(results, isCompareAll) ==
    IF isCompareAll THEN AggregateCompareAll(results)
    ELSE AggregateSingle(results)

\* The locals of handleAnalyze and of the analyzeTimeRange call it awaits;
\* `batch` numbers the invocation of handleAnalyze they belong to
NoFrame ==
    [direction |-> "none", start |-> FormatSlot(0), end |-> FormatSlot(0),
     futureTimes |-> <<>>, isCompareAll |-> FALSE, trafficModels |-> <<>>,
     results |-> <<>>, lastError |-> NoError, slot |-> 0, mi |-> 0,
     resultEntry |-> NewEntry0(FormatSlot(0), 0), morningResults |-> Undefined,
     batch |-> 0]

\* The client as one value: what a step of the engine reads and writes
Machine ==
    [state |-> state, pc |-> pc, frame |-> frame, calls |-> calls,
     windows |-> windows, toast |-> toast, ncalls |-> ncalls]

\* fetchTravelTime(origin, destination, departureTime, model) up to its
\* `await fetch`: the POST for the current slot and model is sent
IssueCall(m, now) ==
    LET f == m.frame
        tm == f.trafficModels[f.mi]
    IN  [m EXCEPT
            !.calls = Append(@, [batch |-> f.batch, direction |-> f.direction,
                                       time |-> f.resultEntry.time,
                                       departureTime |-> f.resultEntry.departureTime,
                                       key |-> tm.key, model |-> tm.model, at |-> now]),
            !.ncalls = @ + 1,
            !.pc = "fetch"]

\* One round of `for (const time of futureTimes)` up to its first await
StartSlot(m, now) ==
    LET f == m.frame
        time == f.futureTimes[f.slot]
        departureTime == CombineDateAndTime(m.state.selectedDate, time)
    IN  IssueCall([m EXCEPT !.frame.resultEntry = NewEntry0(time, departureTime),
                            !.frame.mi = 1],
                  now)

\* Mutant: a failure clears the stored results.
ThrowClearsResults(m, error) ==
    [m EXCEPT !.toast = [type |-> "error", message |-> error.message],
              !.state.isAnalyzing = FALSE,
              !.state.analysisResults = Null,
              !.pc = "idle",
              !.frame = NoFrame]

\* Mutant: no finally; a failure leaves the flag set.
ThrowNoFinally(m, error) ==
    [m EXCEPT !.toast = [type |-> "error", message |-> error.message],
              !.pc = "idle",
              !.frame = NoFrame]

\* An error leaves analyzeTimeRange: catch and finally of handleAnalyze
Throw(m, error) ==
    [m EXCEPT !.toast = [type |-> "error", message |-> error.message],
              !.state.isAnalyzing = FALSE,
              !.pc = "idle",
              !.frame = NoFrame]

\* new Error(`All ${periodName} times (${timeRange}) have passed for today. ...`)
NoFutureSlots(direction, start, end) ==
    Error([text |-> "All times have passed for today. Try selecting tomorrow.",
           periodName |-> IF direction = "morning" THEN "morning" ELSE "evening",
           timeRange |-> <<FormatTime(start), FormatTime(end)>>], 0)

\* analyzeTimeRange(direction) from its first line to its first await or throw
BeginWindow(m, batch, direction, morningResults, now) ==
    LET isMorning == direction = "morning"
        ts == m.state.timeSettings
        start == IF isMorning THEN ts.morningStart ELSE ts.eveningStart
        end == IF isMorning THEN ts.morningEnd ELSE ts.eveningEnd
        times == GenerateTimeSlots(start, end, IntervalMinutes)
        futureTimes == FutureTimes(times, m.state.selectedDate, now)
        m1 == [m EXCEPT
                  !.windows = Append(@, [batch |-> batch, direction |-> direction,
                                         start |-> start, end |-> end, now |-> now,
                                         date |-> m.state.selectedDate,
                                         trafficModel |-> m.state.trafficModel]),
                  !.frame = [NoFrame EXCEPT
                                !.direction = direction,
                                !.start = start, !.end = end,
                                !.futureTimes = futureTimes,
                                !.isCompareAll = (m.state.trafficModel = "compare_all"),
                                !.trafficModels = TrafficModels(m.state.trafficModel),
                                !.slot = 1,
                                !.morningResults = morningResults,
                                !.batch = batch]]
    IN  IF Len(futureTimes) = 0
        THEN Throw(m1, NoFutureSlots(direction, start, end))
        ELSE StartSlot(m1, now)

\* handleAnalyze after both windows returned
Complete(m, eveningResults) ==
    [m EXCEPT !.state.analysisResults =
                  [t |-> "object", morning |-> m.frame.morningResults,
                   evening |-> eveningResults],
              !.toast = [type |-> "success", message |-> Msg("Analysis complete!")],
              !.state.isAnalyzing = FALSE,
              !.pc = "idle",
              !.frame = NoFrame]

\* analyzeTimeRange after its loops, and what handleAnalyze does with the
\* outcome up to the next await
EndWindow(m, now) ==
    LET f == m.frame
        agg == Aggregate(f.results, f.isCompareAll)
    IN  IF Len(f.results) = 0
        THEN IF f.lastError.isError
             THEN Throw(m, f.lastError)
             ELSE Throw(m, Error(Msg("Failed to fetch travel times. Please check your addresses."), 0))
        ELSE IF agg.threw THEN Throw(m, agg.error)
        ELSE IF f.direction = "morning"
             THEN BeginWindow(m, f.batch, "evening", agg.value, now)
             ELSE Complete(m, agg.value)

\* After `await sleep(200)`: the next model of the slot, or the keep rule and
\* the next slot, or the end of the loops
AfterSleep(m, now) ==
    LET f == m.frame
        kept == IF Keep(f.resultEntry, f.isCompareAll)
                THEN Append(f.results, f.resultEntry) ELSE f.results
    IN  IF f.mi < Len(f.trafficModels)
        THEN IssueCall([m EXCEPT !.frame.mi = @ + 1], now)
        ELSE IF f.slot < Len(f.futureTimes)
             THEN StartSlot([m EXCEPT !.frame.results = kept, !.frame.slot = @ + 1], now)
             ELSE EndWindow([m EXCEPT !.frame.results = kept], now)

\* The variables take the values of a Machine
Becomes(m) ==
    /\ state' = m.state
    /\ pc' = m.pc
    /\ frame' = m.frame
    /\ calls' = m.calls
    /\ windows' = m.windows
    /\ toast' = m.toast
    /\ ncalls' = m.ncalls

\* A click on the Analyze button: handleAnalyze up to its first await
HandleAnalyze ==
    /\ clicks < MaxClicks
    /\ clicks' = clicks + 1
    /\ LET started == [Machine EXCEPT !.state.isAnalyzing = TRUE]
           m == IF state.isAnalyzing THEN Machine
                ELSE IF SelectedDateEnd(state.selectedDate) < clientNow
                THEN [Machine EXCEPT !.toast =
                         [type |-> "warning",
                          message |-> Msg("Cannot analyze past dates. Select today or a future date.")]]
                ELSE BeginWindow(started, clicks', "morning", Undefined, clientNow)
       IN  /\ m.ncalls <= budget
           /\ Becomes(m)
    /\ UNCHANGED <<clientNow, events, budget, answers, govVars, genVars, aggVars, raceVars>>

\* What the proxy may answer: 200 with a duration in seconds, or an error
FetchOutcomes ==
    {[ok |-> TRUE, duration |-> 600, error |-> ""],
     [ok |-> TRUE, duration |-> 900, error |-> ""],
     [ok |-> FALSE, duration |-> 0, error |-> "Rate limit exceeded. Please wait a moment."]}

\* How long an answer may take, in milliseconds
Latencies == {100}

\* Mutant: no catch around the call; a rejection leaves analyzeTimeRange.
FetchSettleNoCatch(outcome, latency) ==
    /\ pc = "fetch"
    /\ clientNow' = clientNow + latency
    /\ IF outcome.ok
       THEN /\ frame' = [frame EXCEPT !.resultEntry =
                            Fulfilled(@, frame.isCompareAll,
                                      frame.trafficModels[frame.mi].key,
                                      outcome.duration)]
            /\ pc' = "sleep"
            /\ UNCHANGED <<state, calls, windows, toast, ncalls>>
       ELSE Becomes(Throw(Machine, Error(Msg(outcome.error), ncalls)))
    /\ answers' = Append(answers, outcome)
    /\ UNCHANGED <<clicks, events, budget, govVars, genVars, aggVars, raceVars>>

\* Mutant: catch keeps the first error it saw.
FetchSettleFirstError(outcome, latency) ==
    /\ pc = "fetch"
    /\ clientNow' = clientNow + latency
    /\ frame' =
          IF outcome.ok
          THEN [frame EXCEPT !.resultEntry =
                   Fulfilled(@, frame.isCompareAll,
                             frame.trafficModels[frame.mi].key, outcome.duration)]
          ELSE [frame EXCEPT
                   !.lastError = IF @.isError THEN @
                                 ELSE Error(Msg(outcome.error), ncalls),
                   !.resultEntry = Rejected(@, frame.isCompareAll,
                                            frame.trafficModels[frame.mi].key)]
    /\ pc' = "sleep"
    /\ answers' = Append(answers, outcome)
    /\ UNCHANGED <<state, calls, windows, toast, ncalls, clicks, events, budget,
                   govVars, genVars, aggVars, raceVars>>

\* `await fetchTravelTime(...)` settles: the body of try or of catch, up to
\* `await sleep(200)`
FetchSettle(outcome, latency) ==
    /\ pc = "fetch"
    /\ clientNow' = clientNow + latency
    /\ frame' =
          IF outcome.ok
          THEN [frame EXCEPT !.resultEntry =
                   Fulfilled(@, frame.isCompareAll,
                             frame.trafficModels[frame.mi].key, outcome.duration)]
          ELSE [frame EXCEPT
                   !.lastError = Error(Msg(outcome.error), ncalls),
                   !.resultEntry = Rejected(@, frame.isCompareAll,
                                            frame.trafficModels[frame.mi].key)]
    /\ pc' = "sleep"
    /\ answers' = Append(answers, outcome)
    /\ UNCHANGED <<state, calls, windows, toast, ncalls, clicks, events, budget,
                   govVars, genVars, aggVars, raceVars>>

\* Mutant: no pause; the loop runs on at once.
SleepDoneAtOnce ==
    /\ pc = "sleep"
    /\ clientNow' = clientNow
    /\ LET m == AfterSleep([Machine EXCEPT !.pc = "run"], clientNow')
       IN  /\ m.ncalls <= budget
           /\ Becomes(m)
           /\ answers' = IF m.pc = "fetch" /\ m.frame.direction = frame.direction
                         THEN answers ELSE <<>>
    /\ UNCHANGED <<clicks, events, budget, govVars, genVars, aggVars, raceVars>>

\* `await sleep(200)` is over: the engine runs on to its next await or its end
SleepDone ==
    /\ pc = "sleep"
    /\ clientNow' = clientNow + PacingMs
    /\ LET m == AfterSleep([Machine EXCEPT !.pc = "run"], clientNow')
       IN  /\ m.ncalls <= budget
           /\ Becomes(m)
           /\ answers' = IF m.pc = "fetch" /\ m.frame.direction = frame.direction
                         THEN answers ELSE <<>>
    /\ UNCHANGED <<clicks, events, budget, govVars, genVars, aggVars, raceVars>>

\* The days of the day picker
Days == {0, 1}

\* selectDay(chip, date)
SelectDay(date) ==
    /\ events < MaxEvents
    /\ events' = events + 1
    /\ state' = [state EXCEPT !.selectedDate = date]
    /\ UNCHANGED <<clientNow, pc, frame, calls, windows, toast, ncalls, clicks,
                   budget, answers, govVars, genVars, aggVars, raceVars>>

\* handleTabChange(direction)
HandleTabChange(direction) ==
    /\ events < MaxEvents
    /\ events' = events + 1
    /\ state' = [state EXCEPT !.selectedDirection = direction]
    /\ UNCHANGED <<clientNow, pc, frame, calls, windows, toast, ncalls, clicks,
                   budget, answers, govVars, genVars, aggVars, raceVars>>

\* A time of day as <input type="time"> gives it
HHMM(h, m) == FormatSlot(h * 60 + m)

\* The values the four time inputs of the settings form may hold
TimeSettingsChoices ==
    {[morningStart |-> HHMM(6, 0), morningEnd |-> HHMM(6, 20),
      eveningStart |-> HHMM(17, 0), eveningEnd |-> HHMM(17, 10)],
     [morningStart |-> HHMM(10, 0), morningEnd |-> HHMM(6, 0),
      eveningStart |-> HHMM(17, 0), eveningEnd |-> HHMM(17, 0)]}

\* The values of the traffic model select
TrafficModelChoices == {"pessimistic", "compare_all"}

\* handleSettingsSave(e)
HandleSettingsSave(trafficModel, timeSettings) ==
    /\ events < MaxEvents
    /\ events' = events + 1
    /\ state' = [state EXCEPT !.trafficModel = trafficModel,
                              !.timeSettings = timeSettings]
    /\ toast' = [type |-> "success", message |-> Msg("Settings saved!")]
    /\ UNCHANGED <<clientNow, pc, frame, calls, windows, ncalls, clicks,
                   budget, answers, govVars, genVars, aggVars, raceVars>>

\* The instant h:m:00.ms of day d
At(d, h, m, ms) == d * DayMs + (h * 60 + m) * MsPerMinute + ms

\* The instants the exploration starts at
Clocks ==
    {At(0, 5, 0, 0), At(0, 6, 0, 0), At(0, 6, 15, 0), At(0, 16, 59, 59400),
     At(0, 18, 0, 0), At(1, 6, 0, 0)}

\* The page is loaded and idle: nothing analysed yet, a day selected,
\* settings as loaded from storage
AppInit ==
    /\ clientNow \in Clocks
    /\ \E d \in Days, tm \in TrafficModelChoices, ts \in TimeSettingsChoices :
           state = [selectedDate |-> d, selectedDirection |-> "morning",
                    isAnalyzing |-> FALSE, analysisResults |-> Null,
                    trafficModel |-> tm, timeSettings |-> ts]
    /\ pc = "idle"
    /\ frame = NoFrame
    /\ calls = <<>>
    /\ windows = <<>>
    /\ toast = NoToast
    /\ ncalls = 0
    /\ clicks = 0
    /\ events = 0
    /\ budget = MaxCalls
    /\ answers = <<>>

\* The page is not looked at.
AppIdle ==
    /\ clientNow = 0
    /\ state = [selectedDate |-> 0, selectedDirection |-> "morning",
                isAnalyzing |-> FALSE, analysisResults |-> Null,
                trafficModel |-> "pessimistic",
                timeSettings |-> CHOOSE ts \in TimeSettingsChoices : TRUE]
    /\ pc = "idle"
    /\ frame = NoFrame
    /\ calls = <<>>
    /\ windows = <<>>
    /\ toast = NoToast
    /\ ncalls = 0
    /\ clicks = 0
    /\ events = 0
    /\ budget = 0
    /\ answers = <<>>

AnalysisNext ==
    \/ HandleAnalyze
    \/ \E outcome \in FetchOutcomes, latency \in Latencies : FetchSettle(outcome, latency)
    \/ SleepDone
    \/ \E date \in Days : SelectDay(date)
    \/ \E direction \in {"morning", "evening"} : HandleTabChange(direction)
    \/ \E tm \in TrafficModelChoices, ts \in TimeSettingsChoices :
           HandleSettingsSave(tm, ts)

\* What the proxy may answer when followed call by call: 200 with a duration
\* (0 for a route of no length), 429 from the governor, 400 from the provider
BatchOutcomes ==
    {[ok |-> TRUE, duration |-> 600, error |-> ""],
     [ok |-> TRUE, duration |-> 0, error |-> ""],
     [ok |-> FALSE, duration |-> 0, error |-> "Too many requests. Try again in 30 seconds."],
     [ok |-> FALSE, duration |-> 0, error |-> "No route found"]}

\* The page is loaded and idle on the morning of the selected day, before or
\* at the first slot of the morning window
BatchInit ==
    /\ clientNow \in {At(0, 5, 0, 0), At(0, 6, 0, 0)}
    /\ \E tm \in TrafficModelChoices :
           state = [selectedDate |-> 0, selectedDirection |-> "morning",
                    isAnalyzing |-> FALSE, analysisResults |-> Null,
                    trafficModel |-> tm,
                    timeSettings |->
                        [morningStart |-> HHMM(6, 0), morningEnd |-> HHMM(6, 20),
                         eveningStart |-> HHMM(17, 0), eveningEnd |-> HHMM(17, 10)]]
    /\ pc = "idle"
    /\ frame = NoFrame
    /\ calls = <<>>
    /\ windows = <<>>
    /\ toast = NoToast
    /\ ncalls = 0
    /\ clicks = 0
    /\ events = 0
    /\ budget = MaxBatchCalls
    /\ answers = <<>>

\* One analysis followed call by call, with no other user event
BatchNext ==
    \/ HandleAnalyze
    \/ \E outcome \in BatchOutcomes, latency \in Latencies : FetchSettle(outcome, latency)
    \/ SleepDone

(***************************************************************************)
(* The aggregation of analyzeTimeRange (what follows its loops), applied   *)
(* to lists of kept slots                                                  *)
(***************************************************************************)
\* The i-th slot of a morning window from 06:00 on, as the loop creates it
SlotEntry(i) ==
    NewEntry0(FormatSlot(360 + (i - 1) * IntervalMinutes),
              CombineDateAndTime(0, FormatSlot(360 + (i - 1) * IntervalMinutes)))

\* The durations in seconds of the kept slots of single mode
SingleDurations == {600, 630, 700, 720, 840, 1000}

\* What the call for a model of compare-all mode gave: a failure (-1), or a
\* duration in seconds
OptimisticResults == {-1, 0, 600}
BestGuessResults == {-1, 0, 600, 900}
PessimisticResults == {-1, 600, 900}

\* The slot entry after its call of single mode returned duration d
SingleEntry(i, d) == Fulfilled(SlotEntry(i), FALSE, "single", d)

\* The slot entry after its three calls of compare-all mode gave o, b and p
CompareEntry(i, o, b, p) ==
    LET Settle(entry, key, r) ==
            IF r < 0 THEN Rejected(entry, TRUE, key) ELSE Fulfilled(entry, TRUE, key, r)
    IN  Settle(Settle(Settle(SlotEntry(i), "optimistic", o), "best_guess", b),
               "pessimistic", p)

\* The lists `results` can be after the loops: every slot in it passed the
\* keep rule
SingleResults ==
    UNION {[1..n -> SingleDurations] : n \in 1..MaxKeptSingle}

CompareResults ==
    UNION {[1..n -> {c \in OptimisticResults \X BestGuessResults \X PessimisticResults :
                        c[1] >= 0 \/ c[2] >= 0 \/ c[3] >= 0}] :
           n \in 1..MaxKeptCompare}

NotAggregated == [called |-> FALSE, threw |-> FALSE, error |-> NoError, value |-> Undefined]

\* Nothing is drawn
NoChart == [rendered |-> FALSE]

\* n / d as JavaScript computes it from tenths of a second: NaN for 0 / 0 and
\* when an operand is infinite, else the quotient, kept as its two terms
Quotient(n, d, infinite) ==
    [nan |-> infinite \/ (n = 0 /\ d = 0), num |-> n, den |-> d]

\* The literal 0 given to the bar of an absent sample
ZeroHeight == [nan |-> FALSE, num |-> 0, den |-> 1]

\* renderChart(results): displayMin and displayRange in tenths of a second,
\* and the height of every bar as a fraction of the chart (the `* 100` of the
\* percentage left out); one bar per slot, or three in compare-all mode
RenderChart(results) ==
    LET minDuration == results.minDuration
        maxDuration == results.maxDuration
        infinite == minDuration = Infinity.v
        range == maxDuration - minDuration
        \* an infinite minDuration gives displayMin = Infinity and
        \* displayRange = -Infinity
        displayMin == IF infinite THEN Infinity.v
                      ELSE Max2(0, 10 * minDuration - range)
        displayRange == IF infinite THEN 0 - Infinity.v
                        ELSE 10 * maxDuration - displayMin
        Height(duration) ==
            IF infinite THEN Quotient(0 - Infinity.v, displayRange, TRUE)
            ELSE Quotient(10 * duration - displayMin, displayRange, FALSE)
        Bar(sample) == IF Truthy(sample) THEN Height(sample.duration.v) ELSE ZeroHeight
    IN  [rendered |-> TRUE, infinite |-> infinite,
         displayMin |-> displayMin, displayRange |-> displayRange,
         bars |-> [i \in DOMAIN results.times |->
                      IF results.isCompareAll
                      THEN <<Bar(results.times[i].optimistic),
                             Bar(results.times[i].best_guess),
                             Bar(results.times[i].pessimistic)>>
                      ELSE <<Height(results.times[i].duration.v)>>]]

AggInit ==
    /\ \/ \E ds \in SingleResults :
              aggIn = [isCompareAll |-> FALSE,
                       results |-> [i \in DOMAIN ds |-> SingleEntry(i, ds[i])]]
       \/ \E cs \in CompareResults :
              aggIn = [isCompareAll |-> TRUE,
                       results |-> [i \in DOMAIN cs |->
                                       CompareEntry(i, cs[i][1], cs[i][2], cs[i][3])]]
    /\ aggOut = NotAggregated
    /\ chart = NoChart

\* No aggregation is looked at.
AggIdle ==
    /\ aggIn = [isCompareAll |-> FALSE, results |-> <<>>]
    /\ aggOut = NotAggregated
    /\ chart = NoChart

\* analyzeTimeRange from `if (isCompareAll)` after its loops to its return
AggCall ==
    /\ ~aggOut.called
    /\ aggOut' = LET a == Aggregate(aggIn.results, aggIn.isCompareAll)
                 IN  [called |-> TRUE, threw |-> a.threw, error |-> a.error,
                      value |-> a.value]
    /\ UNCHANGED <<aggIn, chart, govVars, genVars, appVars, raceVars>>

\* displayResults(results) hands the returned result to renderChart
Render ==
    /\ aggOut.called /\ ~aggOut.threw
    /\ ~chart.rendered
    /\ chart' = RenderChart(aggOut.value)
    /\ UNCHANGED <<aggIn, aggOut, govVars, genVars, appVars, raceVars>>

AggregateNext == AggCall \/ Render

(***************************************************************************)
(* The page and the proxy together: one analysis with the default windows, *)
(* every POST of which is checked by the governor                          *)
(***************************************************************************)
\* CONFIG.DEFAULTS: the windows of a page whose settings were never changed
DefaultTimeSettings ==
    [morningStart |-> HHMM(6, 0), morningEnd |-> HHMM(10, 0),
     eveningStart |-> HHMM(16, 0), eveningEnd |-> HHMM(20, 0)]

\* The page at 05:00 of the selected day, all slots of both windows ahead
PacedInit ==
    /\ clientNow = At(0, 5, 0, 0)
    /\ \E tm \in TrafficModelChoices :
           state = [selectedDate |-> 0, selectedDirection |-> "morning",
                    isAnalyzing |-> FALSE, analysisResults |-> Null,
                    trafficModel |-> tm,
                    timeSettings |-> DefaultTimeSettings]
    /\ pc = "idle"
    /\ frame = NoFrame
    /\ calls = <<>>
    /\ windows = <<>>
    /\ toast = NoToast
    /\ ncalls = 0
    /\ clicks = 0
    /\ events = 0
    /\ budget = MaxPacedCalls
    /\ answers = <<>>

\* The POST of fetchTravelTime as the proxy receives it
PagePost == [method |-> "POST", xff |-> "a", realIp |-> "", remote |-> "", bodyOk |-> TRUE]

\* handler(req, res) for the POST of the awaited call, received at the instant
\* it was sent: the rate check, then 429 or the provider's answer
ProxyCheck ==
    /\ pc = "fetch"
    /\ nreq < ncalls
    /\ hasApiKey
    /\ nreq' = nreq + 1
    /\ serverNow' = clientNow
    /\ LET ip == ClientIp(PagePost)
           rc == CheckRateLimit(rateLimitMap, ip, clientNow)
       IN  /\ rateLimitMap' = rc.map
           /\ allowedLog' = IF rc.allowed
                            THEN [allowedLog EXCEPT ![ip] = AddAt(@, clientNow)]
                            ELSE allowedLog
           /\ last' = [NoLast EXCEPT
                          !.step = "handled", !.method = "POST", !.ip = ip,
                          !.status = IF RateDenied(rc) THEN 429 ELSE 200,
                          !.checked = TRUE, !.allowed = rc.allowed,
                          !.reason = rc.reason, !.retryAfter = rc.retryAfter,
                          !.forwarded = ~RateDenied(rc)]
    /\ UNCHANGED <<hasApiKey, inflight, ticks, genVars, appVars, aggVars, raceVars>>

\* What fetchTravelTime gets of the response: data.duration of a 200, or
\* error.error of a 429
ProxyAnswer(response) ==
    IF response.status = 200
    THEN [ok |-> TRUE, duration |-> 600, error |-> ""]
    ELSE [ok |-> FALSE, duration |-> 0,
          error |-> "Too many requests. Try again in N seconds."]

\* The response of the proxy reaches the page
ProxySettle ==
    /\ nreq = ncalls
    /\ \E latency \in Latencies : FetchSettle(ProxyAnswer(last), latency)

\* The one click of the analysis
FirstClick == clicks = 0 /\ HandleAnalyze

PacedNext == FirstClick \/ ProxyCheck \/ ProxySettle \/ SleepDone

(***************************************************************************)
(* unnamed/part_000: fetchTravelTime races the Directions request against  *)
(* a timer of 15 s.  Its analyzeTimeRange has the loops of public/index.js *)
(* (try, catch, pause), which the engine above follows.                    *)
(***************************************************************************)
\* const timeoutMs = 15000
TimeoutMs == 15000

\* What the callback of directionsService.route may deliver
RouteOutcomes ==
    {[ok |-> TRUE, duration |-> 600, error |-> ""],
     [ok |-> FALSE, duration |-> 0, error |-> "No route found between locations"]}

\* reject(new Error('Request timed out. ...')) of the timer
TimedOut ==
    [ok |-> FALSE, duration |-> 0,
     error |-> "Request timed out. Please enable \"Maps JavaScript API\" in Google Cloud Console."]

\* A race not begun or running: request pending, timer armed, nothing settled
NewRace ==
    [response |-> "pending", timer |-> "armed", settled |-> FALSE, by |-> "none",
     value |-> [ok |-> FALSE, duration |-> 0, error |-> ""]]

\* Mutant: a promise already settled takes the later value.
RaceSettleLastWins(race, by, value) ==
    [race EXCEPT !.settled = TRUE, !.by = by, !.value = value]

\* Promise.race([directionsPromise, timeoutPromise]): the first of the two to
\* settle settles the race; settling a settled promise does nothing
RaceSettle(race, by, value) ==
    IF race.settled THEN race
    ELSE [race EXCEPT !.settled = TRUE, !.by = by, !.value = value]

\* The continuation of `await fetchTravelTime(...)` is due: the race of the
\* awaited call has settled and the loop has not run on yet
ContinuationDue == pc = "fetch" /\ ncalls \in DOMAIN races /\ races[ncalls].settled

\* The callback of directionsService.route for call c runs: resolve(duration)
\* or reject(error)
ResponseArrives(c, outcome) ==
    /\ c <= ncalls /\ ~ContinuationDue
    /\ races[c].response = "pending"
    /\ races' = [races EXCEPT ![c] =
                     RaceSettle([@ EXCEPT !.response = "arrived"], "response", outcome)]
    /\ UNCHANGED <<govVars, genVars, appVars, aggVars>>

\* The callback of setTimeout(..., timeoutMs) for call c runs: reject(...)
TimeoutFires(c) ==
    /\ c <= ncalls /\ ~ContinuationDue
    /\ races[c].timer = "armed"
    /\ races' = [races EXCEPT ![c] =
                     RaceSettle([@ EXCEPT !.timer = "fired"], "timer", TimedOut)]
    /\ UNCHANGED <<govVars, genVars, appVars, aggVars>>

\* `await fetchTravelTime(...)` resumes with what the race settled on, before
\* any other callback runs
RaceContinues ==
    /\ ContinuationDue
    /\ \E latency \in Latencies :
           FetchSettle(races[ncalls].value,
                       IF races[ncalls].by = "timer" THEN TimeoutMs ELSE latency)

\* No call of part_000 is looked at
RaceIdle == races = [c \in 1..MaxRaceCalls |-> NewRace]

\* The page at 05:00 of the selected day with two morning slots and one
\* evening slot ahead, in single mode
RaceInit ==
    /\ clientNow = At(0, 5, 0, 0)
    /\ state = [selectedDate |-> 0, selectedDirection |-> "morning",
                isAnalyzing |-> FALSE, analysisResults |-> Null,
                trafficModel |-> "pessimistic",
                timeSettings |->
                    [morningStart |-> HHMM(6, 0), morningEnd |-> HHMM(6, 20),
                     eveningStart |-> HHMM(17, 0), eveningEnd |-> HHMM(17, 10)]]
    /\ pc = "idle"
    /\ frame = NoFrame
    /\ calls = <<>>
    /\ windows = <<>>
    /\ toast = NoToast
    /\ ncalls = 0
    /\ clicks = 0
    /\ events = 0
    /\ budget = MaxRaceCalls
    /\ answers = <<>>
    /\ races = [c \in 1..MaxRaceCalls |-> NewRace]

RaceNext ==
    \/ FirstClick
    \/ \E c \in DOMAIN races, outcome \in RouteOutcomes : ResponseArrives(c, outcome)
    \/ \E c \in DOMAIN races : TimeoutFires(c)
    \/ RaceContinues
    \/ SleepDone

(***************************************************************************)
(* Specifications                                                          *)
(***************************************************************************)
InitGovernor == GovInit /\ GenIdle /\ AppIdle /\ AggIdle /\ RaceIdle

SpecGovernor == InitGovernor /\ [][GovNext]_vars

SlotsNext == GenCall

InitSlots == GovIdle /\ GenInit /\ AppIdle /\ AggIdle /\ RaceIdle

SpecSlots == InitSlots /\ [][SlotsNext]_vars

InitAnalysis == GovIdle /\ GenIdle /\ AppInit /\ AggIdle /\ RaceIdle

SpecAnalysis == InitAnalysis /\ [][AnalysisNext]_vars

InitBatch == GovIdle /\ GenIdle /\ BatchInit /\ AggIdle /\ RaceIdle

SpecBatch == InitBatch /\ [][BatchNext]_vars

\* The timer of sleep() fires: the loop leaves its pause (setTimeout always
\* calls resolve).  Within BatchNext the only such step is SleepDone.
TimerFires == pc = "sleep" /\ pc' \in {"fetch", "idle"}

\* Analyses of single mode.  The pacing timer fires; nothing in
\* public/index.js obliges the proxy to answer, and no timer races the fetch,
\* so FetchSettle carries no fairness.
InitBatchLive == InitBatch /\ state.trafficModel = "pessimistic"

SpecBatchLive == InitBatchLive /\ [][BatchNext]_vars /\ WF_pc(TimerFires)

InitPaced == GovIdle /\ GenIdle /\ PacedInit /\ AggIdle /\ RaceIdle

SpecPaced == InitPaced /\ [][PacedNext]_vars

InitRace == GovIdle /\ GenIdle /\ RaceInit /\ AggIdle

SpecRace == InitRace /\ [][RaceNext]_vars

InitAggregate == GovIdle /\ GenIdle /\ AppIdle /\ AggInit /\ RaceIdle

SpecAggregate == InitAggregate /\ [][AggregateNext]_vars

(***************************************************************************)
(* Observations on the log of Allowed checks                               *)
(***************************************************************************)
RECURSIVE SumOver(_, _)
SumOver(f, S) ==
    IF S = {} THEN 0
    ELSE LET t == CHOOSE x \in S : TRUE IN f[t] + SumOver(f, S \ {t})

\* Number of checks of ip that were Allowed at an instant in [lo, hi].
AllowedBetween(ip, lo, hi) ==
    SumOver(allowedLog[ip], {t \in DOMAIN allowedLog[ip] : lo <= t /\ t <= hi})

\* Number of checks of ip that were Allowed on UTC day d.
AllowedOnDay(ip, d) ==
    SumOver(allowedLog[ip], {t \in DOMAIN allowedLog[ip] : UtcDay(t) = d})

\* The last step was a handler step that called checkRateLimit.
LastChecked == last.step = "handled" /\ last.checked

(***************************************************************************)
(* Claims on the request governor (checked under SpecGovernor)             *)
(***************************************************************************)

\* C1: once 60 checks were Allowed in a window, every further check made while
\* the window is not reset is Denied, and a short-window denial carries a retry
\* hint of at least one second.
C1_ShortCapPositiveRetry ==
    LastChecked =>
        /\ (last.pre.count >= MaxRequests /\ last.elapsed <= WindowMs) => ~last.allowed
        /\ last.reason = "short" => last.retryAfter >= 1

\* C1, the part of it that holds: the further checks are Denied, and the hint is
\* never negative.
C1_ShortCapDenied ==
    LastChecked =>
        /\ (last.pre.count >= MaxRequests /\ last.elapsed <= WindowMs) => ~last.allowed
        /\ last.reason = "short" => last.retryAfter >= 0

\* C2: an Allowed check adds exactly one to the client's short-window counter
\* and daily counter (counted from zero when the check restarted the window or
\* the day); a Denied check adds to neither; no other client's entry changes.
C2_QuotaDiscipline ==
    [][(nreq' = nreq + 1 /\ last'.checked) =>
        LET ip == last'.ip
            e0 == last'.pre
            e1 == rateLimitMap'[ip]
            inc == IF last'.allowed THEN 1 ELSE 0
        IN  /\ e1.count = (IF e1.windowStart = e0.windowStart THEN e0.count ELSE 0) + inc
            /\ e1.dailyCount = (IF e1.dailyKey = e0.dailyKey THEN e0.dailyCount ELSE 0) + inc
            /\ \A other \in DOMAIN rateLimitMap \ {ip} :
                   rateLimitMap'[other] = rateLimitMap[other]
            /\ DOMAIN rateLimitMap' = DOMAIN rateLimitMap \cup {ip}
      ]_vars

\* C2 witness: an Allowed check of a client with an entry and both counters
\* above zero has raised both by one, inside its window and its day.
C2_Witness ==
    /\ LastChecked /\ last.allowed /\ last.hadEntry
    /\ last.pre.count > 0 /\ last.pre.dailyCount > last.pre.count
    /\ rateLimitMap[last.ip].count = last.pre.count + 1
    /\ rateLimitMap[last.ip].dailyCount = last.pre.dailyCount + 1

\* C3: a check made with the daily counter at 1000 and the short-window counter
\* at 60 is Denied with the daily reason and no retry hint.
C3_DailyCapFirst ==
    (/\ LastChecked /\ ~last.allowed
     /\ rateLimitMap[last.ip].dailyCount >= DailyLimit
     /\ rateLimitMap[last.ip].count >= MaxRequests)
        => (last.reason = "daily" /\ last.retryAfter = NoRetry /\ last.status = 429)

\* C3 witness: a daily denial while both counters are at their caps.
C3_Witness ==
    /\ LastChecked /\ last.reason = "daily"
    /\ rateLimitMap[last.ip].dailyCount = DailyLimit
    /\ rateLimitMap[last.ip].count = MaxRequests

\* C4: the first check on a calendar day other than the recorded one resets the
\* daily counter before the caps are evaluated, so it is never a daily denial;
\* it is Allowed iff the short window permits; and inside an unexpired window
\* the day change leaves the short-window counter and window start alone.
C4_DailyReset ==
    [][(/\ nreq' = nreq + 1 /\ last'.checked /\ last'.hadEntry
        /\ rateLimitMap[last'.ip].dailyKey # GetRateLimitKey(last'.ip, serverNow)) =>
        LET ip == last'.ip
            e0 == rateLimitMap[ip]
            e1 == rateLimitMap'[ip]
            inc == IF last'.allowed THEN 1 ELSE 0
            expired == serverNow - e0.windowStart > WindowMs
        IN  /\ e1.dailyCount = inc
            /\ e1.dailyKey = GetRateLimitKey(ip, serverNow)
            /\ last'.reason # "daily"
            /\ last'.allowed <=> (expired \/ e0.count < MaxRequests)
            /\ ~expired => (e1.windowStart = e0.windowStart /\ e1.count = e0.count + inc)
      ]_vars

\* C4 witness: a client whose daily counter stood at 1000 on the recorded day is
\* Allowed on the next day.
C4_Witness ==
    /\ LastChecked /\ last.allowed /\ last.hadEntry
    /\ last.pre.dailyCount = DailyLimit
    /\ last.pre.dailyKey # rateLimitMap[last.ip].dailyKey
    /\ rateLimitMap[last.ip].dailyCount = 1

\* C5 as stated: in any 60 seconds of server time at most 60 checks of a client
\* are Allowed (every such interval ends at some instant that is `serverNow`).
C5_SlidingWindowCap ==
    \A ip \in Clients :
        AllowedBetween(ip, serverNow - WindowMs + 1, serverNow) <= MaxRequests

\* C5 amended: the cap is per recorded window: at most 60 checks of a client are
\* Allowed from the recorded windowStart on, until the window is restarted.
C5_FixedWindowCap ==
    \A ip \in DOMAIN rateLimitMap :
        AllowedBetween(ip, rateLimitMap[ip].windowStart, serverNow) <= MaxRequests

\* C5 witness: more than 60 checks of one client Allowed within 60 seconds,
\* across a restart of the window.
C5_Witness ==
    \E ip \in DOMAIN rateLimitMap :
        /\ AllowedBetween(ip, serverNow - WindowMs + 1, serverNow) > MaxRequests
        /\ rateLimitMap[ip].windowStart > serverNow - WindowMs

\* C6: with handler invocations of the same client suspended and interleaved,
\* the counters never pass their caps, and neither does the number of Allowed
\* checks of the recorded window or of the recorded day.
C6_CapsNeverPassed ==
    \A ip \in DOMAIN rateLimitMap :
        /\ rateLimitMap[ip].count <= MaxRequests
        /\ rateLimitMap[ip].dailyCount <= DailyLimit
        /\ rateLimitMap[ip].count
               = AllowedBetween(ip, rateLimitMap[ip].windowStart, serverNow)
        /\ AllowedOnDay(ip, rateLimitMap[ip].dailyKey[2]) <= DailyLimit

\* C6 witness: a check of a client is Denied at the daily cap while an earlier
\* request of the same client is still suspended on its provider call.
C6_Witness ==
    /\ LastChecked /\ ~last.allowed
    /\ rateLimitMap[last.ip].dailyCount = DailyLimit
    /\ AllowedOnDay(last.ip, rateLimitMap[last.ip].dailyKey[2]) = DailyLimit
    /\ [ip |-> last.ip, allowed |-> TRUE] \in DOMAIN inflight

\* C7: a POST is checked exactly once and before forwarding; only a request
\* whose own check was Allowed is sent to the provider; a Denied check ends in
\* 429 with no provider call; another method ends in 405 and leaves the
\* governor state alone.
C7_CheckOncePerPost ==
    /\ [](\A r \in DOMAIN inflight : r.allowed)
    /\ [][nreq' = nreq + 1 =>
            /\ last'.method # "POST" =>
                   (/\ last'.status = 405 /\ ~last'.checked
                    /\ UNCHANGED <<rateLimitMap, inflight, allowedLog>>)
            /\ last'.method = "POST" =>
                   (/\ last'.checked
                    /\ rateLimitMap'
                         = CheckRateLimit(rateLimitMap, last'.ip, serverNow).map)
            /\ (last'.checked /\ ~last'.allowed) =>
                   (last'.status = 429 /\ ~last'.forwarded /\ inflight' = inflight)
            /\ inflight' # inflight => (last'.allowed /\ last'.forwarded)
       ]_vars

\* C7 witness: a Denied POST answered 429 while nothing was forwarded for it.
C7_Witness ==
    /\ LastChecked /\ last.method = "POST" /\ ~last.allowed
    /\ last.status = 429 /\ ~last.forwarded

(***************************************************************************)
(* Claims on generateTimeSlots (checked under SpecSlots)                   *)
(***************************************************************************)
GenStart == TotalMinutes(genIn.start)

GenEnd == TotalMinutes(genIn.end)

\* A well-formed "HH:MM": two digits each, minutes below 60.
IsTimeString(s) ==
    /\ Len(s.hh) = 2 /\ Len(s.mm) = 2
    /\ \A i \in 1..2 : s.hh[i] \in 0..9 /\ s.mm[i] \in 0..9
    /\ DigitsValue(s.mm) < 60

\* C8: a call with end earlier than start fails with InvalidWindow; it does not
\* return a slot list.
C8_InvalidWindowThrown ==
    (genOut.called /\ GenEnd < GenStart) => genOut.kind = "InvalidWindow"

\* C9: for start <= end the call returns exactly start + k*interval for
\* k = 0..floor((end-start)/interval), as well-formed strings in strictly
\* increasing order; start is included, end iff it is on the grid; and
\* ("06:00","10:00",15) gives 17 slots from "06:00" to "10:00".
C9_GridSlots ==
    (genOut.called /\ GenStart <= GenEnd) =>
        LET n == (GenEnd - GenStart) \div genIn.intervalMinutes + 1
            slots == genOut.slots
        IN  /\ genOut.kind = "returned"
            /\ Len(slots) = n
            /\ \A k \in 1..Len(slots) :
                   /\ IsTimeString(slots[k])
                   /\ TotalMinutes(slots[k]) = GenStart + (k - 1) * genIn.intervalMinutes
            /\ \A k \in 1..(Len(slots) - 1) :
                   TotalMinutes(slots[k]) < TotalMinutes(slots[k + 1])
            /\ slots[1] = genIn.start
            /\ (\E k \in 1..Len(slots) : slots[k] = genIn.end)
                   <=> ((GenEnd - GenStart) % genIn.intervalMinutes = 0)
            /\ (GenStart = 360 /\ GenEnd = 600 /\ genIn.intervalMinutes = 15) =>
                   (/\ Len(slots) = 17
                    /\ slots[1] = [hh |-> <<0, 6>>, mm |-> <<0, 0>>]
                    /\ slots[17] = [hh |-> <<1, 0>>, mm |-> <<0, 0>>])

\* C9 witness: the call ("06:00","10:00",15) has returned its 17 slots.
C9_Witness ==
    /\ genOut.called
    /\ genIn = [start |-> [hh |-> <<0, 6>>, mm |-> <<0, 0>>],
                end |-> [hh |-> <<1, 0>>, mm |-> <<0, 0>>], intervalMinutes |-> 15]
    /\ Len(genOut.slots) = 17

(***************************************************************************)
(* Observations on the windows analysed and the provider calls issued      *)
(***************************************************************************)
\* The minutes of the day on the grid of a window
GridMinutes(w) ==
    LET first == TotalMinutes(w.start)
        span == TotalMinutes(w.end) - first
    IN  {first + i * IntervalMinutes : i \in 0..(span \div IntervalMinutes)}

\* The instant of minute g of the day selected when window w was filtered
InstantOf(w, g) == w.date * DayMs + g * MsPerMinute

\* The slots of window w that lie strictly after the `now` it captured
EligibleTimes(w) == {FormatSlot(g) : g \in {h \in GridMinutes(w) : InstantOf(w, h) > w.now}}

\* The slots for which a provider call of window w was issued
QueriedTimes(w) ==
    {calls[i].time : i \in {j \in DOMAIN calls :
                              /\ calls[j].batch = w.batch
                              /\ calls[j].direction = w.direction}}

\* The analysis of the k-th window has ended
WindowDone(k) == k < Len(windows) \/ pc = "idle"

\* C10: a slot of a window is queried only if its instant on the selected date
\* is strictly after the now captured when the window's analysis began, and
\* once the window is done every such slot was queried; a window all of whose
\* slots are excluded ends the batch at once with the NoFutureSlots error that
\* names the period and the window, and no provider call is issued for it.
C10_FutureFilter ==
    /\ [](\A k \in DOMAIN windows :
            LET w == windows[k]
                queried == QueriedTimes(w)
                eligible == EligibleTimes(w)
            IN  /\ queried \subseteq eligible
                /\ WindowDone(k) => queried = eligible
                /\ eligible = {} =>
                       (k = Len(windows) \/ windows[k + 1].batch # w.batch))
    /\ [][Len(windows') > Len(windows) =>
            LET w == windows'[Len(windows')]
            IN  EligibleTimes(w) = {} =>
                    /\ toast' = [type |-> "error",
                                 message |->
                                     [text |-> "All times have passed for today. Try selecting tomorrow.",
                                      periodName |-> w.direction,
                                      timeRange |-> <<FormatTime(w.start),
                                                      FormatTime(w.end)>>]]
                    /\ pc' = "idle" /\ ~state'.isAnalyzing
                    /\ calls' = calls
                    /\ state'.analysisResults = state.analysisResults
       ]_vars

\* C10 witness: a batch whose morning window had a slot at exactly the captured
\* now, left out while a later slot was queried, and whose evening window had
\* every slot excluded and failed with the evening NoFutureSlots error.
C10_Witness ==
    /\ Len(windows) = 2 /\ pc = "idle"
    /\ windows[1].batch = windows[2].batch
    /\ \E g \in GridMinutes(windows[1]) :
           /\ InstantOf(windows[1], g) = windows[1].now
           /\ FormatSlot(g) \notin QueriedTimes(windows[1])
    /\ QueriedTimes(windows[1]) # {}
    /\ EligibleTimes(windows[2]) = {} /\ QueriedTimes(windows[2]) = {}
    /\ toast.type = "error" /\ toast.message.periodName = "evening"

\* C11: every provider call the orchestrator issues settles, by an answer or,
\* when the provider never answers, by the 15 s timeout it is raced against, so
\* that the batch moves on.  (public/index.js awaits fetch alone: with the
\* timers firing and the proxy silent, the call stays pending for ever.)
C11_EveryCallSettles == (pc = "fetch") ~> (pc # "fetch")

(***************************************************************************)
(* Claims on the loops of analyzeTimeRange (checked under SpecBatch)       *)
(***************************************************************************)
\* The keys the inner loop runs over, per setting of the traffic model
ModelKeys(trafficModel) ==
    IF trafficModel = "compare_all"
    THEN <<"optimistic", "best_guess", "pessimistic">>
    ELSE <<"single">>

\* The (slot, model) pairs of window w in the order of the loops: every slot
\* strictly after the captured now, earliest first, each under every key
ExpectedPairs(w) ==
    LET eligible == {g \in GridMinutes(w) : InstantOf(w, g) > w.now}
        keys == ModelKeys(w.trafficModel)
        nth(i) == CHOOSE g \in eligible :
                      Cardinality({h \in eligible : h < g}) = i - 1
    IN  [i \in 1..(Cardinality(eligible) * Len(keys)) |->
            <<FormatSlot(nth(((i - 1) \div Len(keys)) + 1)),
              keys[((i - 1) % Len(keys)) + 1]>>]

\* The (slot, model) pairs for which a call of window w was issued, in order
IssuedPairs(w) ==
    LET own == SelectSeq(calls, LAMBDA c : /\ c.batch = w.batch
                                           /\ c.direction = w.direction)
    IN  [i \in DOMAIN own |-> <<own[i].time, own[i].key>>]

IsPrefix(s, t) == Len(s) <= Len(t) /\ s = SubSeq(t, 1, Len(s))

\* The messages of the errors the proxy may answer with
ProviderMessages == {Msg(o.error) : o \in {q \in BatchOutcomes : ~q.ok}}

\* C12: a failed provider call never ends a window early: the calls of a
\* window are always a prefix of its (slot, model) pairs in loop order, and
\* all of them once the window is done, whatever failed on the way; a settling
\* call, failed or not, only leads to the pause before the next pair; and a
\* provider error reaches the caller only after the last pair of a window that
\* kept no slot at all.
C12_PartialFailure ==
    /\ [](\A k \in DOMAIN windows :
            LET w == windows[k]
                issued == IssuedPairs(w)
                expected == ExpectedPairs(w)
            IN  /\ IsPrefix(issued, expected)
                /\ WindowDone(k) => issued = expected)
    /\ [][(pc = "fetch" /\ pc' # "fetch") =>
               /\ pc' = "sleep"
               /\ toast' = toast /\ state' = state
               /\ calls' = calls /\ windows' = windows]_vars
    /\ [][(toast' # toast /\ toast'.type = "error"
              /\ toast'.message \in ProviderMessages) =>
               /\ pc = "sleep"
               /\ frame.results = <<>>
               /\ ~Truthy(frame.resultEntry.duration)
               /\ ~Truthy(frame.resultEntry.optimistic)
               /\ ~Truthy(frame.resultEntry.best_guess)
               /\ ~Truthy(frame.resultEntry.pessimistic)
               /\ LET w == windows[Len(windows)]
                  IN  IssuedPairs(w) = ExpectedPairs(w)]_vars

\* C12 witness: a call of a window failed, the call for a later slot of the
\* same window was issued all the same, and it is now pending.
C12_Witness ==
    /\ pc = "fetch"
    /\ frame.lastError.isError
    /\ frame.lastError.call < ncalls
    /\ calls[frame.lastError.call].batch = calls[ncalls].batch
    /\ calls[frame.lastError.call].direction = calls[ncalls].direction
    /\ calls[frame.lastError.call].time # calls[ncalls].time

\* The times of a list of slot entries
Times(entries) == [i \in DOMAIN entries |-> entries[i].time]

\* The provider call that settles in this step failed
CallFailed == ~answers'[Len(answers')].ok

\* At least one of the three models of a slot produced a sample
SomeSample(entry) ==
    \E key \in {"optimistic", "best_guess", "pessimistic"} : entry[key].t = "object"

\* The pause after the last model of a slot is over
SlotEnds == pc = "sleep" /\ pc' # "sleep" /\ frame.mi = Len(frame.trafficModels)

\* The step ends a slot and the slots of the window so far stay visible: in the
\* running list, or in the result the window returned
SlotsVisible ==
    /\ SlotEnds
    /\ \/ frame.slot < Len(frame.futureTimes)
       \/ frame.direction = "morning" /\ Len(windows') > Len(windows)
       \/ frame.direction = "evening" /\ toast'.type = "success"

\* The slots visible after such a step
SlotsAfter ==
    IF frame.slot < Len(frame.futureTimes) THEN frame'.results
    ELSE IF frame.direction = "morning" THEN frame'.morningResults.times
    ELSE state'.analysisResults.evening.times

\* C13: a settling call leaves a sample under its key iff it succeeded (a
\* failed model is recorded as absent); at the end of a slot in compare-all
\* mode the slot joins the result iff at least one of its three models
\* produced a sample; in single mode it joins only if its one call succeeded;
\* nothing else enters or leaves the list.
C13_KeepRule ==
    /\ [][(pc = "fetch" /\ pc' = "sleep") =>
               LET key == frame.trafficModels[frame.mi].key
               IN  IF frame.isCompareAll
                   THEN /\ CallFailed <=> frame'.resultEntry[key].t # "object"
                        /\ \A other \in {"optimistic", "best_guess", "pessimistic"} \ {key} :
                               frame'.resultEntry[other] = frame.resultEntry[other]
                        /\ frame'.results = frame.results
                   ELSE /\ CallFailed <=> frame'.resultEntry.duration.t # "number"
                        /\ frame'.results = frame.results]_vars
    /\ [][SlotsVisible =>
               LET with == Append(frame.results, frame.resultEntry)
               IN  IF frame.isCompareAll
                   THEN Times(SlotsAfter) =
                            Times(IF SomeSample(frame.resultEntry)
                                  THEN with ELSE frame.results)
                   ELSE /\ Times(SlotsAfter) \in {Times(with), Times(frame.results)}
                        /\ Times(SlotsAfter) = Times(with) =>
                               frame.resultEntry.duration.t = "number"]_vars

\* C13 witness: in compare-all mode the first slot of a window was kept with
\* its optimistic sample absent and the other two present, and the loop is at
\* the next slot.
C13_Witness ==
    /\ pc = "fetch" /\ frame.isCompareAll /\ frame.slot = 2
    /\ Len(frame.results) = 1
    /\ frame.results[1].time = frame.futureTimes[1]
    /\ frame.results[1].optimistic.t = "null"
    /\ frame.results[1].best_guess.t = "object"
    /\ frame.results[1].pessimistic.t = "object"

\* The pause after the last model of the last slot of a window is over
WindowEnds == SlotEnds /\ frame.slot = Len(frame.futureTimes)

\* The analysis ends in an error with this message: no result is stored and
\* nothing further is asked of the provider
FailsWith(message) ==
    /\ pc' = "idle" /\ ~state'.isAnalyzing
    /\ toast' = [type |-> "error", message |-> message]
    /\ state'.analysisResults = state.analysisResults
    /\ calls' = calls /\ windows' = windows

\* C14: when the loops of a window end with no slot kept, the analysis fails
\* with the error of the most recent failed call of that window if one failed,
\* and with the generic error otherwise; in particular when every call of the
\* window failed it fails with the error of the last call.
C14_AllSlotsFailed ==
    [][WindowEnds =>
          LET failed == {i \in DOMAIN answers : ~answers[i].ok}
              latest == CHOOSE i \in failed : \A j \in failed : j <= i
              w == windows[Len(windows)]
          IN  /\ Len(answers) = Len(ExpectedPairs(w))
              /\ (frame.results = <<>> /\ ~Keep(frame.resultEntry, frame.isCompareAll)) =>
                     FailsWith(IF failed # {}
                               THEN Msg(answers[latest].error)
                               ELSE Msg("Failed to fetch travel times. Please check your addresses."))
              /\ failed = DOMAIN answers =>
                     FailsWith(Msg(answers[Len(answers)].error))]_vars

\* C14 witness: both slots of a morning window were asked for, no slot was
\* kept, and the analysis failed with a provider's error.
C14_Witness ==
    /\ pc = "idle" /\ ~state.isAnalyzing
    /\ Len(windows) = 1 /\ Len(calls) = 2
    /\ calls[1].time # calls[2].time
    /\ toast = [type |-> "error", message |-> Msg("No route found")]
    /\ state.analysisResults = Null

(***************************************************************************)
(* Claims on the aggregation of analyzeTimeRange (checked under            *)
(* SpecAggregate)                                                          *)
(***************************************************************************)
\* The aggregation ran on kept slots of single mode and returned
SingleReturned == aggOut.called /\ ~aggIn.isCompareAll /\ ~aggOut.threw

\* The aggregation ran on kept slots of compare-all mode and returned
CompareReturned == aggOut.called /\ aggIn.isCompareAll /\ ~aggOut.threw

\* The durations of the kept slots of single mode, in slot order
KeptDurations == [i \in DOMAIN aggIn.results |-> aggIn.results[i].duration.v]

\* The trafficLevel of the slots of the result, in slot order
Levels == [i \in DOMAIN aggOut.value.times |-> aggOut.value.times[i].trafficLevel]

\* C15: the aggregation of at least one kept slot, in either mode, returns a
\* result in which exactly one slot has isOptimal = true, and `optimal` refers
\* to that slot of `times`.
C15_ExactlyOneOptimal ==
    (aggOut.called /\ Len(aggIn.results) >= 1) =>
        /\ ~aggOut.threw
        /\ LET v == aggOut.value
           IN  /\ Cardinality({i \in DOMAIN v.times : v.times[i].isOptimal}) = 1
               /\ v.optimal \in DOMAIN v.times
               /\ v.times[v.optimal].isOptimal

\* C16: in single mode minDuration and maxDuration are the least and the
\* greatest duration of the kept slots, and the optimal slot is the earliest
\* kept slot whose duration is the least.
C16_SingleAggregation ==
    SingleReturned =>
        LET v == aggOut.value
            ds == KeptDurations
        IN  /\ DOMAIN v.times = DOMAIN ds
            /\ \A i \in DOMAIN ds : v.minDuration <= ds[i] /\ ds[i] <= v.maxDuration
            /\ \E i \in DOMAIN ds : v.minDuration = ds[i]
            /\ \E i \in DOMAIN ds : v.maxDuration = ds[i]
            /\ v.optimal \in DOMAIN ds
            /\ ds[v.optimal] = v.minDuration
            /\ \A j \in 1..(v.optimal - 1) : ds[j] > v.minDuration
            /\ \A i \in DOMAIN ds :
                   /\ v.times[i].time = aggIn.results[i].time
                   /\ v.times[i].duration = aggIn.results[i].duration
                   /\ v.times[i].isOptimal <=> i = v.optimal

\* C16 witness: three kept slots of which the second and the third tie for
\* the least duration; the second is the optimal one.
C16_Witness ==
    /\ SingleReturned
    /\ KeptDurations = <<700, 600, 600>>
    /\ aggOut.value.optimal = 2
    /\ aggOut.value.minDuration = 600 /\ aggOut.value.maxDuration = 700

\* C17: in single mode a kept slot is low iff duration < 1.2 * minDuration,
\* medium iff 1.2 * minDuration <= duration < 1.4 * minDuration, high iff
\* duration >= 1.4 * minDuration (tenths, to stay in the integers); and a slot
\* of the least duration is low.
C17_TrafficLevels ==
    SingleReturned =>
        LET ds == KeptDurations
            m == aggOut.value.minDuration
        IN  \A i \in DOMAIN ds :
                /\ Levels[i] \in {"low", "medium", "high"}
                /\ Levels[i] = "low" <=> 10 * ds[i] < 12 * m
                /\ Levels[i] = "medium" <=> (12 * m <= 10 * ds[i] /\ 10 * ds[i] < 14 * m)
                /\ Levels[i] = "high" <=> 10 * ds[i] >= 14 * m
                /\ ds[i] = m => Levels[i] = "low"

\* C17 witness: durations at exactly 1.2 and 1.4 times the least one came out
\* medium and high.
C17_Witness ==
    /\ SingleReturned
    /\ KeptDurations = <<600, 720, 840>>
    /\ Levels = <<"low", "medium", "high">>

\* The example of three kept slots of 600, 700 and 1000 seconds was aggregated
ExampleAggregated == SingleReturned /\ KeptDurations = <<600, 700, 1000>>

\* C18 as stated: durations [600, 700, 1000] give minDuration 600 and the
\* levels [low, medium, high].
C18_ExampleAsStated ==
    ExampleAggregated =>
        /\ aggOut.value.minDuration = 600
        /\ Levels = <<"low", "medium", "high">>

\* C18 amended: durations [600, 700, 1000] give minDuration 600 and the levels
\* [low, low, high]: 700 / 600 is below 1.2.
C18_Example ==
    ExampleAggregated =>
        /\ aggOut.value.minDuration = 600
        /\ Levels = <<"low", "low", "high">>

\* C18 witness: the example was aggregated and its 700 s slot is low.
C18_Witness ==
    /\ ExampleAggregated
    /\ aggOut.value.times[2].duration = Num(700)
    /\ aggOut.value.times[2].trafficLevel = "low"

\* The duration of the optimal slot: its best_guess duration in compare-all mode
OptimalDuration ==
    LET r == aggIn.results[aggOut.value.optimal]
    IN  IF aggIn.isCompareAll THEN r.best_guess.duration.v ELSE r.duration.v

\* C19: savingsMinutes is (maxDuration - duration of the optimal slot) / 60
\* rounded to the nearest integer, a half going up; 1000 s against 600 s gives 7.
C19_Savings ==
    (aggOut.called /\ ~aggOut.threw) =>
        LET v == aggOut.value
            diff == v.maxDuration - OptimalDuration
        IN  /\ diff >= 0
            /\ 60 * v.savingsMinutes - 30 <= diff
            /\ diff < 60 * v.savingsMinutes + 30
            /\ (v.maxDuration = 1000 /\ OptimalDuration = 600) => v.savingsMinutes = 7

\* C19 witness: a difference of 30 seconds, half a minute, gave 1.
C19_Witness ==
    /\ SingleReturned
    /\ KeptDurations = <<630, 600>>
    /\ aggOut.value.maxDuration - OptimalDuration = 30
    /\ aggOut.value.savingsMinutes = 1

\* The kept slots of compare-all mode that carry a best_guess sample
Candidates == {i \in DOMAIN aggIn.results : aggIn.results[i].best_guess.t = "object"}

\* The best_guess duration of candidate i
BestGuess(i) == aggIn.results[i].best_guess.duration.v

\* C20: in compare-all mode the optimal slot is a slot with a best_guess
\* sample, of the least best_guess duration among those, and the earliest such;
\* best_guess samples alone determine it.
C20_CompareOptimal ==
    CompareReturned =>
        LET v == aggOut.value
        IN  /\ v.optimal \in Candidates
            /\ \A i \in Candidates : BestGuess(v.optimal) <= BestGuess(i)
            /\ \A j \in Candidates : j < v.optimal => BestGuess(j) > BestGuess(v.optimal)
            /\ \A i \in DOMAIN v.times : v.times[i].isOptimal <=> i = v.optimal

\* C20 witness: the optimal slot is the second one, by its best_guess sample,
\* while the first slot, without a best_guess sample, holds the least duration
\* of all samples.
C20_Witness ==
    /\ CompareReturned
    /\ Len(aggIn.results) = 2
    /\ aggOut.value.optimal = 2
    /\ 1 \notin Candidates
    /\ aggIn.results[1].optimistic = Sample(600)
    /\ BestGuess(2) = 900
    /\ aggOut.value.minDuration = 600

\* The durations of the samples present in the kept slots of compare-all mode
PresentDurations ==
    {aggIn.results[i][key].duration.v :
        <<i, key>> \in {p \in (DOMAIN aggIn.results)
                               \X {"optimistic", "best_guess", "pessimistic"} :
                          aggIn.results[p[1]][p[2]].t = "object"}}

\* C21: in compare-all mode maxDuration is the greatest and minDuration the
\* least duration of the samples that are present, whatever their values; an
\* absent sample counts for neither.
C21_CompareExtrema ==
    CompareReturned =>
        /\ aggOut.value.maxDuration \in PresentDurations
        /\ aggOut.value.minDuration \in PresentDurations
        /\ \A d \in PresentDurations :
               aggOut.value.minDuration <= d /\ d <= aggOut.value.maxDuration

\* The heights of all bars of the chart drawn
BarHeights == UNION {{chart.bars[i][k] : k \in DOMAIN chart.bars[i]} : i \in DOMAIN chart.bars}

\* C22: displayMin is max(0, minDuration - 0.1 * (maxDuration - minDuration))
\* (560 for 600 and 1000; tenths of a second here), and the height
\* (value - displayMin) / (maxDuration - displayMin) of every bar drawn is a
\* number with a non-zero denominator that lies in [0, 1], also when all
\* samples have the same duration.
C22_ChartScaling ==
    chart.rendered =>
        LET v == aggOut.value
        IN  /\ ~chart.infinite
            /\ chart.displayMin =
                   Max2(0, 10 * v.minDuration - (v.maxDuration - v.minDuration))
            /\ (v.minDuration = 600 /\ v.maxDuration = 1000) => chart.displayMin = 5600
            /\ \A h \in BarHeights :
                   /\ ~h.nan
                   /\ h.den > 0
                   /\ 0 <= h.num /\ h.num <= h.den

(***************************************************************************)
(* Claims on the order and the pacing of the provider calls (SpecBatch)    *)
(***************************************************************************)
\* Call j is the call issued next after call i within one window
NextInWindow(i, j) ==
    /\ j = i + 1
    /\ calls[i].batch = calls[j].batch
    /\ calls[i].direction = calls[j].direction

\* The position of a key in the order optimistic, best_guess, pessimistic
KeyRank(key) ==
    CASE key = "optimistic" -> 1
      [] key = "best_guess" -> 2
      [] key = "pessimistic" -> 3
      [] OTHER -> 1

C24_NeverDenied ==
    (last.step = "handled" /\ last.checked) => (last.allowed /\ last.status # 429)

(***************************************************************************)
(* Claims on the timeout race of part_000 (checked under SpecRace)         *)
(***************************************************************************)
\* The step runs the callback of the side of a race that lost it
LoserRuns == \E c \in DOMAIN races : races[c].settled /\ races'[c] # races[c]

\* C25: what a race settled on never changes: a response that arrives after
\* the timeout settled the call, or a timeout that fires after the response
\* did, leaves the samples, lastError, the results, the stored analysis and the
\* toast as they were and issues no call; and the one outcome the loops take
\* for a call is what its race settled on.
C25_LoserDiscarded ==
    /\ [][\A c \in DOMAIN races :
              races[c].settled =>
                  /\ races'[c].settled
                  /\ races'[c].by = races[c].by
                  /\ races'[c].value = races[c].value]_vars
    /\ [][LoserRuns =>
              /\ frame' = frame /\ state' = state /\ toast' = toast
              /\ calls' = calls /\ answers' = answers /\ pc' = pc]_vars
    /\ [][Len(answers') > Len(answers) =>
              /\ answers' = Append(answers, races[ncalls].value)
              /\ races[ncalls].settled
              /\ Len(answers') <= Len(IssuedPairs(windows[Len(windows)]))]_vars

\* C25 witness: the first call was settled by its timeout and its response
\* came later; the second was settled by its response and its timer fired
\* later; the loop is at the third call, with the first slot dropped and the
\* second kept.
C25_Witness ==
    /\ ncalls = 3
    /\ races[1].by = "timer" /\ races[1].response = "arrived"
    /\ races[2].by = "response" /\ races[2].timer = "fired" /\ races[2].value.ok
    /\ Len(windows) = 2
    /\ windows[1].batch = windows[2].batch
    /\ pc = "fetch" /\ frame.direction = "evening"
    /\ Len(frame.morningResults.times) = 1
    /\ frame.morningResults.times[1].time = calls[2].time

(***************************************************************************)
(* Claims on handleAnalyze and the user events (checked under SpecAnalysis) *)
(***************************************************************************)
\* The step handles a click on Analyze
Clicked == clicks' = clicks + 1

\* C26: isAnalyzing is true exactly while a batch runs; a click on Analyze
\* while it is true issues no call and changes nothing; a batch starts only
\* from a click made while none runs, which sets isAnalyzing; and when the
\* batch ends, by the success of both windows or by the failure of either,
\* isAnalyzing is false again.
C26_ReentrancyGuard ==
    /\ [](state.isAnalyzing <=> pc # "idle")
    /\ [](pc # "idle" => frame.batch = windows[Len(windows)].batch)
    /\ [][(Clicked /\ state.isAnalyzing) =>
              /\ state' = state /\ pc' = pc /\ frame' = frame
              /\ calls' = calls /\ windows' = windows /\ toast' = toast
              /\ ncalls' = ncalls /\ answers' = answers]_vars
    /\ [][(~state.isAnalyzing /\ state'.isAnalyzing) =>
              /\ Clicked
              /\ Len(calls') = Len(calls) + 1
              /\ frame'.batch = clicks']_vars
    /\ [][(pc # "idle" /\ pc' = "idle") =>
              /\ ~state'.isAnalyzing
              /\ toast'.type \in {"success", "error"}]_vars
    /\ [][(Len(windows') > Len(windows) /\ ~Clicked) =>
              windows'[Len(windows')].batch = frame.batch]_vars

\* C26 witness: a second click was handled while the batch of the first was
\* running, and that batch runs on alone.
C26_Witness ==
    /\ clicks = 2
    /\ state.isAnalyzing /\ pc = "fetch"
    /\ frame.batch = 1
    /\ \A i \in DOMAIN calls : calls[i].batch = 1
    /\ \A k \in DOMAIN windows : windows[k].batch = 1

\* The step begins the analysis of a window
WindowBegins == Len(windows') > Len(windows)

FirstWindowOf(i) ==
    windows[CHOOSE k \in DOMAIN windows :
                /\ windows[k].batch = calls[i].batch
                /\ \A j \in 1..(k - 1) : windows[j].batch # calls[i].batch]

\* The window that call i belongs to
WindowOf(i) ==
    windows[CHOOSE k \in DOMAIN windows :
                /\ windows[k].batch = calls[i].batch
                /\ windows[k].direction = calls[i].direction]

\* C28: every provider call of a batch asks for its slot on the date that was
\* selected when the batch started, at an instant strictly after the now its
\* window captured, and in single mode with the traffic model that was set
\* when the batch started, whatever user events were handled meanwhile.
C28_InputsFixed ==
    \A i \in DOMAIN calls :
        /\ calls[i].departureTime
               = InstantOf(FirstWindowOf(i), TotalMinutes(calls[i].time))
        /\ calls[i].departureTime > WindowOf(i).now
        /\ FirstWindowOf(i).trafficModel # "compare_all" =>
               calls[i].model = FirstWindowOf(i).trafficModel

\* The durations of the samples the aggregation was given, in either mode
SampleDurations ==
    IF aggIn.isCompareAll
    THEN PresentDurations
    ELSE {KeptDurations[i] : i \in DOMAIN KeptDurations}

\* C29: an aggregated result is consistent: minDuration <= duration of the
\* optimal slot (its best_guess sample in compare-all mode) <= maxDuration,
\* minDuration and maxDuration are finite and each is the duration of a sample
\* that is present, and savingsMinutes is not negative.
C29_ResultConsistent ==
    (aggOut.called /\ ~aggOut.threw) =>
        LET v == aggOut.value
        IN  /\ v.minDuration <= OptimalDuration
            /\ OptimalDuration <= v.maxDuration
            /\ v.minDuration # Infinity.v
            /\ v.minDuration \in SampleDurations
            /\ v.maxDuration \in SampleDurations
            /\ v.savingsMinutes >= 0

\* The entry of the client of the last handler step as checkRateLimit's window
\* and day resets leave it, before any charge
LastUncharged ==
    ResetWindow(ResetDaily(last.pre, GetRateLimitKey(last.ip, serverNow)), serverNow)

\* The last handler step rejected a POST before forwarding it, for missing
\* fields (400) or a missing credential (500)
RejectedUnforwarded ==
    /\ last.step = "handled"
    /\ last.checked
    /\ ~last.forwarded
    /\ last.status \in {400, 500}

\* C30: a POST rejected with 400 for missing fields or with 500 for a missing
\* credential is not charged: the client's short-window and daily counters are
\* what they were before the request (after the window and day resets).
C30_ChargedOnlyIfForwarded ==
    RejectedUnforwarded =>
        /\ rateLimitMap[last.ip].count = LastUncharged.count
        /\ rateLimitMap[last.ip].dailyCount = LastUncharged.dailyCount

====
